---------------------------- MODULE Spec2Model ----------------------------
(***************************************************************************)
(* A model of the TodoApp class of src/script.js: the in-memory task list  *)
(* (this.todos), the next-id counter (this.todoIdCounter), the             *)
(* localStorage slot "todoApp_todos", the rendered list (the data-id       *)
(* attributes querySelector sees) and the pending 300 ms timers of         *)
(* deleteTodo.                                                             *)
(*                                                                         *)
(* JavaScript values that come out of JSON.parse are tagged records        *)
(* [t |-> <kind>, ...]; the tasks kept in this.todos have passed the       *)
(* validity filter, so their id is a number and their text a string, and   *)
(* they are kept as [id, text, completed].  Numbers are small integers and *)
(* Infinity (what JSON.parse makes of a numeral such as 1e999, and what    *)
(* JSON.stringify writes as null); NaN and fractions are outside the       *)
(* model's number domain, and so are the values (non-numeral strings,      *)
(* objects) whose ++ yields NaN.                                           *)
(* createdAt and lastSaved are timestamps no operation reads; they are     *)
(* left out.                                                               *)
(***************************************************************************)
EXTENDS Integers, Sequences, FiniteSets, TLC

VARIABLES
    todos,          \* this.todos: the tasks, in display order
    todoIdCounter,  \* this.todoIdCounter
    storage,        \* the localStorage slot "todoApp_todos"
    todoList,       \* the data-id of the elements render() left in #todoList
    timers,         \* the ids of the pending deleteTodo timers, oldest first
    failures,       \* how many writes the store has rejected
    last,           \* what the last handler did: its name, its saveTodos calls,
                    \* whether the write went through, what it reported, and
                    \* the valid tasks of the file it imported
    everHeld,       \* history: the ids held by some task since the page was
                    \* opened (kept only by the specifications that track it)
    requested,      \* history: for each pending timer, the tasks that held its
                    \* id and the counter when the delete was requested
    expected        \* history: the list as it would be had every delete taken
                    \* effect when it was requested

vars ==
    <<todos, todoIdCounter, storage, todoList, timers, failures, last, everHeld,
      requested, expected>>

---------------------------------------------------------------------------
(* Bounds of the model. *)

\* the longest this.todos the model lets add and import-merge build
MaxTodos == 2
\* the largest id add and import-merge may assign
MaxId == 2
\* the most deleteTodo timers pending at once
MaxTimers == 1
\* the most localStorage.setItem calls the store rejects in one behaviour
MaxFailures == 1
\* the most entries of an imported file or of the slot found at startup
MaxEntries == 2
\* the longest list, and the largest id, of the behaviours without imports
MaxAdds == 4
\* the most deleteTodo timers pending at once in those behaviours
MaxPending == 2

---------------------------------------------------------------------------
(* JavaScript / JSON values. *)

JNum(n) == [t |-> "number", v |-> n]
JStr(s) == [t |-> "string", v |-> s]
JBool(b) == [t |-> "boolean", v |-> b]
JNull == [t |-> "null"]
JUndef == [t |-> "undefined"]
JArr(items) == [t |-> "array", items |-> items]
\* a task-shaped object of a JSON document
JTodo(id, text, completed) ==
    [t |-> "object", id |-> id, text |-> text, completed |-> completed]
\* an object read for its todos and counter properties ({} has neither)
JEnvelope(ts, counter) == [t |-> "envelope", todos |-> ts, counter |-> counter]

\* typeof v
TypeOf(v) ==
    IF v.t \in {"null", "array", "object", "envelope"} THEN "object" ELSE v.t

\* the truthiness `v || ...` and `if (v)` test
Truthy(v) ==
    CASE v.t = "number" -> v.v # 0
      [] v.t = "string" -> v.v # ""
      [] v.t = "boolean" -> v.v
      [] v.t \in {"null", "undefined"} -> FALSE
      [] OTHER -> TRUE

\* ToNumber(v) for the values the counter can hold
ToNumber(v) ==
    CASE v.t = "number" -> v.v
      [] v.t = "boolean" -> (IF v.v THEN 1 ELSE 0)
      [] OTHER -> 0

\* Array.isArray(v)
IsArray(v) == v.t = "array"

\* the Number Infinity, kept as an integer above every finite number of the
\* model
Infinity == 1000

\* n + k on Numbers: Infinity + k is Infinity
Plus(n, k) == IF n = Infinity THEN Infinity ELSE n + k

---------------------------------------------------------------------------
(* The text held by the localStorage slot or by an imported file.  A text  *)
(* is modelled by what JSON.parse makes of it: a JSON document, or a       *)
(* SyntaxError.                                                            *)

SyntaxError == [t |-> "syntaxError"]
\* localStorage.getItem returns null: the key was never written
NoItem == [t |-> "noitem"]
\* the empty string: falsy, and JSON.parse("") throws
EmptyText == [t |-> "text", empty |-> TRUE, parse |-> SyntaxError]
Text(doc) == [t |-> "text", empty |-> FALSE, parse |-> doc]

\* JSON.parse(text)
JsonParse(text) == text.parse

\* a Number as JSON.stringify writes it: a non-finite one becomes null
NumberToJson(n) == IF n = Infinity THEN JNull ELSE JNum(n)

\* the counter as JSON.stringify writes it
CounterToJson(counter) ==
    IF counter.t = "number" THEN NumberToJson(counter.v) ELSE counter

\* one task of this.todos as JSON.stringify writes it
TodoToJson(todo) == JTodo(NumberToJson(todo.id), JStr(todo.text), todo.completed)

\* a parsed, valid entry as the task this.todos holds
TodoFromJson(e) == [id |-> e.id.v, text |-> e.text.v, completed |-> e.completed]

\* JSON.stringify({todos, counter, lastSaved})
JsonStringify(ts, counter) ==
    Text(JEnvelope(JArr([i \in DOMAIN ts |-> TodoToJson(ts[i])]),
                   CounterToJson(counter)))

\* (todo) => todo && typeof todo.id === "number" && typeof todo.text === "string"
IsValidTodo(e) ==
    /\ Truthy(e)
    /\ e.t = "object"
    /\ TypeOf(e.id) = "number"
    /\ TypeOf(e.text) = "string"

\* array.filter(valid), as tasks
FilterValid(items) ==
    LET kept == SelectSeq(items, IsValidTodo)
    IN  [i \in DOMAIN kept |-> TodoFromJson(kept[i])]

\* Math.max(...ts.map((t) => t.id)), for a non-empty ts
MaxIdOf(ts) ==
    CHOOSE m \in {ts[i].id : i \in DOMAIN ts} : \A i \in DOMAIN ts : ts[i].id <= m

\* getNextId()
GetNextId(ts) == IF Len(ts) > 0 THEN Plus(MaxIdOf(ts), 1) ELSE 1

\* the data-id attributes render() leaves in the list, in order
Render(ts) == [i \in DOMAIN ts |-> ts[i].id]

\* input.value taken as it is typed
Untrimmed(input) == input

\* input.value.trim(), on the inputs the model types
Trim(input) ==
    CASE input = " " -> ""
      [] input = " a " -> "a"
      [] OTHER -> input

---------------------------------------------------------------------------
(* saveTodos and loadTodos. *)

\* saveTodos(): the slot after the call; ok is whether setItem returned
SaveTodos(ts, counter, slot, ok) == IF ok THEN JsonStringify(ts, counter) ELSE slot

\* the todos property of a parsed value (undefined on anything but an envelope)
TodosOf(doc) == IF doc.t = "envelope" THEN doc.todos ELSE JUndef

\* the counter property of a parsed value
CounterOf(doc) == IF doc.t = "envelope" THEN doc.counter ELSE JUndef

\* parsedData.counter || this.getNextId()
LoadedCounter(doc, ts) ==
    IF Truthy(CounterOf(doc)) THEN CounterOf(doc) ELSE JNum(GetNextId(ts))

\* the branch loadTodos takes on the slot
LoadBranch(slot) ==
    IF slot = NoItem \/ slot.empty THEN "none"
    ELSE LET doc == JsonParse(slot)
         IN  CASE doc = SyntaxError -> "catch"
               [] doc = JNull -> "catch"
               [] Truthy(TodosOf(doc)) /\ IsArray(TodosOf(doc)) -> "envelope"
               [] IsArray(doc) -> "legacy"
               [] OTHER -> "ignored"

\* loadTodos() on a freshly constructed app (todos = [], todoIdCounter = 1)
LoadTodos(slot, ok) ==
    LET branch == LoadBranch(slot)
        doc == JsonParse(slot)
    IN  CASE branch = "envelope" ->
               LET ts == FilterValid(TodosOf(doc).items)
               IN  [todos |-> ts, counter |-> LoadedCounter(doc, ts),
                    storage |-> slot, saves |-> 0, reports |-> {}]
          [] branch = "legacy" ->
               LET ts == FilterValid(doc.items)
               IN  [todos |-> ts, counter |-> JNum(GetNextId(ts)),
                    storage |-> SaveTodos(ts, JNum(GetNextId(ts)), slot, ok),
                    saves |-> 1,
                    reports |-> IF ok THEN {} ELSE {"saveError"}]
          [] branch = "catch" ->
               [todos |-> <<>>, counter |-> JNum(1), storage |-> slot,
                saves |-> 0, reports |-> {"loadError"}]
          [] OTHER ->
               [todos |-> <<>>, counter |-> JNum(1), storage |-> slot,
                saves |-> 0, reports |-> {}]

---------------------------------------------------------------------------
(* The inputs the model draws from. *)

\* the ids and texts carried by the entries of a slot or of a file
RawIds == {JNum(0), JNum(1)}
RawTexts == {JStr("x"), JStr("y")}

\* entries the validity filter drops: null, an id that is a string, no text
InvalidEntries ==
    {JNull, JTodo(JStr("1"), JStr("x"), FALSE), JTodo(JNum(1), JUndef, FALSE)}

RawEntries ==
    {JTodo(i, x, FALSE) : i \in RawIds, x \in RawTexts} \cup InvalidEntries

SeqsUpTo(S, n) == UNION {[1..k -> S] : k \in 0..n}

RawArrays == SeqsUpTo(RawEntries, MaxEntries)

\* the counter property of a slot's envelope
SlotCounters == {JUndef, JNull, JBool(TRUE), JNum(-1), JNum(0), JNum(1), JNum(2)}

\* what the slot may hold when the page is opened
SlotContents ==
    {NoItem, EmptyText, Text(SyntaxError), Text(JNull), Text(JNum(5)),
     Text(JEnvelope(JUndef, JUndef))}
    \cup {Text(JEnvelope(JArr(a), c)) : a \in RawArrays, c \in SlotCounters}
    \cup {Text(JArr(a)) : a \in RawArrays}

\* what an imported file may hold
FileContents ==
    {EmptyText, Text(SyntaxError), Text(JNull),
     Text(JEnvelope(JArr(<<>>), JNum(1)))}
    \cup {Text(JArr(a)) : a \in RawArrays}

\* what the user may type into the input
InputValues == {"", " ", " a "}

\* the ids a handler may be called with
Ids == -1..(MaxId + 1)

\* whether setItem may throw once more, when the store rejects at most budget writes
WriteOutcomes(budget) == IF failures < budget THEN {TRUE, FALSE} ELSE {TRUE}

\* the narrower inputs of the behaviours in which the store rejects writes
FewSlots ==
    {NoItem, Text(SyntaxError),
     Text(JArr(<<JTodo(JNum(1), JStr("x"), FALSE)>>)),
     Text(JEnvelope(JArr(<<JTodo(JNum(1), JStr("x"), FALSE)>>), JNum(2)))}
FewFiles ==
    {Text(SyntaxError), Text(JArr(<<JNull>>)),
     Text(JArr(<<JTodo(JNum(1), JStr("y"), FALSE)>>))}

\* slots and files with numbers out of the ordinary: a counter below -1, an
\* id written 1e999
ExtremeSlots ==
    {NoItem,
     Text(JEnvelope(JArr(<<>>), JNum(-2))),
     Text(JArr(<<JTodo(JNum(Infinity), JStr("x"), FALSE)>>)),
     Text(JArr(<<JTodo(JNum(Infinity), JStr("x"), FALSE),
                 JTodo(JNum(1), JStr("y"), FALSE)>>))}
ExtremeFiles ==
    {Text(SyntaxError),
     Text(JArr(<<JTodo(JNum(1), JStr("y"), FALSE)>>)),
     Text(JArr(<<JTodo(JNum(Infinity), JStr("x"), FALSE)>>))}

---------------------------------------------------------------------------
(* The state after the constructor: loadTodos(), then render(). *)

Report(op, saves, ok, reports, batch) ==
    [op |-> op, saves |-> saves, wrote |-> saves > 0 /\ ok, reports |-> reports,
     batch |-> batch]

\* the ids of the tasks of ts
IdsOf(ts) == {ts[i].id : i \in DOMAIN ts}

InitFrom(slots, budget, track) ==
    \E slot \in slots, ok \in (IF budget > 0 THEN BOOLEAN ELSE {TRUE}) :
        LET r == LoadTodos(slot, ok)
        IN  /\ todos = r.todos
            /\ todoIdCounter = r.counter
            /\ storage = r.storage
            /\ todoList = Render(r.todos)
            /\ timers = <<>>
            /\ failures = (IF r.saves > 0 /\ ~ok THEN 1 ELSE 0)
            /\ last = Report("load", r.saves, ok, r.reports, <<>>)
            /\ everHeld = (IF track THEN IdsOf(r.todos) ELSE {})
            /\ requested = <<>>
            /\ expected = (IF track THEN r.todos ELSE <<>>)

Init == InitFrom(SlotContents, 0, FALSE)

\* the page is opened for the first time: the key was never written
InitFresh == InitFrom({NoItem}, 0, FALSE)

InitFail == InitFrom(FewSlots, MaxFailures, FALSE)

InitHistory == InitFrom(FewSlots, 0, TRUE)

InitNumbers == InitFrom(ExtremeSlots, 0, FALSE)

InitAdd == InitFrom({NoItem}, 0, TRUE)

\* the constructor before it calls loadTodos(): an empty list, counter 1,
\* nothing rendered, and whatever the slot holds
InitConstructed ==
    /\ todos = <<>>
    /\ todoIdCounter = JNum(1)
    /\ storage \in SlotContents \cup ExtremeSlots
    /\ todoList = <<>>
    /\ timers = <<>>
    /\ failures = 0
    /\ last = Report("constructor", 0, TRUE, {}, <<>>)
    /\ everHeld = {}
    /\ requested = <<>>
    /\ expected = <<>>

---------------------------------------------------------------------------
(* What each operation does to this.todos and this.todoIdCounter. *)

\* addTodo taking the id from the length of the list
AddEffectFromLength(ts, counter, text) ==
    [todos |-> Append(ts, [id |-> Len(ts) + 1, text |-> text, completed |-> FALSE]),
     counter |-> JNum(Plus(ToNumber(counter), 1))]

\* addTodo: the task built from the counter, pushed; the counter after ++
AddEffect(ts, counter, text) ==
    [todos |-> Append(ts, [id |-> ToNumber(counter), text |-> text,
                           completed |-> FALSE]),
     counter |-> JNum(Plus(ToNumber(counter), 1))]

\* this.todos.find((todo) => todo.id === id): its index, 0 when there is none
FindIndex(ts, id) ==
    IF \E i \in DOMAIN ts : ts[i].id = id
    THEN CHOOSE i \in DOMAIN ts :
            /\ ts[i].id = id
            /\ \A j \in DOMAIN ts : ts[j].id = id => i <= j
    ELSE 0

\* toggleTodo marking the task found as completed instead of flipping it
ToggleEffectMark(ts, id) ==
    LET i == FindIndex(ts, id)
    IN  IF i = 0 THEN ts ELSE [ts EXCEPT ![i].completed = TRUE]

\* toggleTodo: todo.completed = !todo.completed on the task found
ToggleEffect(ts, id) ==
    LET i == FindIndex(ts, id)
    IN  IF i = 0 THEN ts ELSE [ts EXCEPT ![i].completed = ~@]

\* the timer callback putting back the list as it was up to the deleted task
DeleteEffectTruncate(ts, id) ==
    IF FindIndex(ts, id) = 0 THEN ts ELSE SubSeq(ts, 1, FindIndex(ts, id) - 1)

\* the timer callback of deleteTodo: this.todos.filter((todo) => todo.id !== id)
DeleteEffect(ts, id) ==
    LET Keep(todo) == todo.id # id
    IN  SelectSeq(ts, Keep)

\* clearAllTodos: this.todos = []; the counter is not touched
ClearEffect(ts, counter) == [todos |-> <<>>, counter |-> counter]

\* import, replace, numbering the tasks of the file from 1
ReplaceRenumbered(ts, valid) == [i \in DOMAIN valid |-> [valid[i] EXCEPT !.id = i]]

\* import, replace: this.todos = validTodos
ReplaceEffect(ts, valid) == valid

\* import, merge, numbering from the length of the list instead of its largest id
MergeFromLength(ts, valid) ==
    ts \o [i \in DOMAIN valid |-> [valid[i] EXCEPT !.id = Len(ts) + (i - 1) + 1]]

\* import, merge: todo.id = maxId + index + 1; this.todos.push(todo)
MergeEffect(ts, valid) ==
    LET maxId == IF Len(ts) > 0 THEN MaxIdOf(ts) ELSE 0
    IN  ts \o [i \in DOMAIN valid |->
                  [valid[i] EXCEPT !.id = Plus(maxId, (i - 1) + 1)]]

\* what the onload handler of importTodos makes of the file
ImportOutcome(file) ==
    LET doc == JsonParse(file)
    IN  CASE doc = SyntaxError -> "importFailed"
          [] ~IsArray(doc) -> "invalidFormat"
          [] Len(FilterValid(doc.items)) = 0 -> "noValidTasks"
          [] OTHER -> "imported"

\* importTodos on a file with valid tasks: the list, then the counter
ImportEffect(ts, file, replace) ==
    LET valid == FilterValid(JsonParse(file).items)
        new == IF replace THEN ReplaceEffect(ts, valid) ELSE MergeEffect(ts, valid)
    IN  [todos |-> new, counter |-> JNum(GetNextId(new))]

\* document.querySelector(`[data-id="${id}"]`) finds an element
HasElement(list, id) == \E i \in DOMAIN list : list[i] = id

---------------------------------------------------------------------------
(* The handlers. *)

\* a handler that puts the registry back when the write fails
MutateRollback(op, ts, counter, ok, reports, batch) ==
    /\ todos' = (IF ok THEN ts ELSE todos)
    /\ todoIdCounter' = (IF ok THEN counter ELSE todoIdCounter)
    /\ storage' = SaveTodos(ts, counter, storage, ok)
    /\ todoList' = Render(todos')
    /\ failures' = (IF ok THEN failures ELSE failures + 1)
    /\ last' = Report(op, 1, ok, reports \cup (IF ok THEN {} ELSE {"saveError"}),
                      batch)

\* a handler that called saveTodos() once and render()
Mutate(op, ts, counter, ok, reports, batch) ==
    /\ todos' = ts
    /\ todoIdCounter' = counter
    /\ storage' = SaveTodos(ts, counter, storage, ok)
    /\ todoList' = Render(ts)
    /\ failures' = (IF ok THEN failures ELSE failures + 1)
    /\ last' = Report(op, 1, ok, reports \cup (IF ok THEN {} ELSE {"saveError"}),
                      batch)

\* a handler that returned without touching the registry or the slot
Skip(op, reports) ==
    /\ UNCHANGED <<todos, todoIdCounter, storage, todoList, failures>>
    /\ last' = Report(op, 0, TRUE, reports, <<>>)

\* the counters the model follows: those up to max, and Infinity, which no
\* operation moves
Followed(n, max) == n <= max \/ n = Infinity

\* addTodo(); the model follows it while the list has fewer than room tasks
\* and the counter is at most maxId
AddTodo(input, ok, room, maxId) ==
    LET text == Trim(input)
    IN  IF text = ""
        THEN Skip("addTodo", {"inputError"}) /\ UNCHANGED timers
        ELSE /\ Len(todos) < room
             /\ Followed(ToNumber(todoIdCounter), maxId)
             /\ LET r == AddEffect(todos, todoIdCounter, text)
                IN  Mutate("addTodo", r.todos, r.counter, ok, {"added"}, <<>>)
             /\ UNCHANGED timers

\* deleteTodo(id): marks the element and starts the 300 ms timer; the model
\* follows it while fewer than room timers are pending
DeleteTodo(id, room) ==
    IF HasElement(todoList, id)
    THEN /\ Len(timers) < room
         /\ timers' = Append(timers, id)
         /\ Skip("deleteTodo", {})
    ELSE Skip("deleteTodo", {}) /\ UNCHANGED timers

\* the timer callback of deleteTodo; timers of one delay fire in order
DeleteTimeout(ok) ==
    /\ timers # <<>>
    /\ timers' = Tail(timers)
    /\ Mutate("deleteTimeout", DeleteEffect(todos, Head(timers)), todoIdCounter,
              ok, {}, <<>>)

ToggleTodo(id, ok) ==
    IF FindIndex(todos, id) # 0
    THEN Mutate("toggleTodo", ToggleEffect(todos, id), todoIdCounter, ok, {}, <<>>)
         /\ UNCHANGED timers
    ELSE Skip("toggleTodo", {}) /\ UNCHANGED timers

ClearAllTodos(confirmed, ok) ==
    IF confirmed
    THEN LET r == ClearEffect(todos, todoIdCounter)
         IN  Mutate("clearAllTodos", r.todos, r.counter, ok, {"cleared"}, <<>>)
             /\ UNCHANGED timers
    ELSE Skip("clearAllTodos", {}) /\ UNCHANGED timers

\* reader.onload of importTodos without the validTodos.length > 0 test: a file
\* with no valid task is installed like any other
ImportTodosUnchecked(file, replace, ok, room) ==
    IF ImportOutcome(file) \in {"imported", "noValidTasks"}
    THEN LET r == ImportEffect(todos, file, replace)
         IN  /\ Mutate(IF replace THEN "importReplace" ELSE "importMerge",
                       r.todos, r.counter, ok, {"imported"},
                       FilterValid(JsonParse(file).items))
             /\ UNCHANGED timers
    ELSE replace /\ Skip("importTodos", {ImportOutcome(file)}) /\ UNCHANGED timers

\* reader.onload of importTodos; replace is the answer to confirm(), which is
\* asked only of a file with valid tasks (so a rejected file is one step, not
\* one per answer).  The model follows an import while the list it builds has
\* at most room tasks.
ImportTodos(file, replace, ok, room) ==
    LET outcome == ImportOutcome(file)
    IN  IF outcome = "imported"
        THEN LET r == ImportEffect(todos, file, replace)
             IN  /\ Len(r.todos) <= room
                 /\ Followed(ToNumber(r.counter), MaxId + MaxEntries)
                 /\ Mutate(IF replace THEN "importReplace" ELSE "importMerge",
                           r.todos, r.counter, ok, {"imported"},
                           FilterValid(JsonParse(file).items))
                 /\ UNCHANGED timers
        ELSE replace /\ Skip("importTodos", {outcome}) /\ UNCHANGED timers

\* the page is opened again: a new TodoApp; the timers die with the old page
Reload(ok) ==
    LET r == LoadTodos(storage, ok)
    IN  /\ todos' = r.todos
        /\ todoIdCounter' = r.counter
        /\ storage' = r.storage
        /\ todoList' = Render(r.todos)
        /\ timers' = <<>>
        /\ failures' = (IF r.saves > 0 /\ ~ok THEN failures + 1 ELSE failures)
        /\ last' = Report("load", r.saves, ok, r.reports, <<>>)

\* the tasks of ts that hold id, by id and text
Holding(ts, id) ==
    {[id |-> ts[i].id, text |-> ts[i].text] : i \in {j \in DOMAIN ts : ts[j].id = id}}

\* the id of the task a toggle flipped
Flipped == todos[CHOOSE k \in DOMAIN todos : todos'[k] # todos[k]].id

\* the history variables: reset when the page is opened, else brought up to
\* date with what the handler did
History(track) ==
    /\ everHeld' = (CASE ~track -> everHeld
                      [] last'.op = "load" -> IdsOf(todos')
                      [] OTHER -> everHeld \cup IdsOf(todos'))
    /\ requested' =
          (CASE ~track -> requested
             [] last'.op = "load" -> <<>>
             [] Len(timers') > Len(timers) ->
                  Append(requested,
                         [seen |-> Holding(todos, timers'[Len(timers')]),
                          at |-> ToNumber(todoIdCounter)])
             [] Len(timers') < Len(timers) -> Tail(requested)
             [] OTHER -> requested)
    /\ expected' =
          (CASE ~track -> expected
             [] last'.op \in {"load", "importReplace"} -> todos'
             [] last'.op \in {"addTodo", "importMerge"} /\ last'.saves = 1 ->
                  expected \o SubSeq(todos', Len(todos) + 1, Len(todos'))
             [] last'.op = "toggleTodo" /\ last'.saves = 1 ->
                  ToggleEffect(expected, Flipped)
             [] last'.op = "clearAllTodos" /\ last'.saves = 1 -> <<>>
             [] Len(timers') > Len(timers) ->
                  DeleteEffect(expected, timers'[Len(timers')])
             [] OTHER -> expected)

\* any handler, on a file of files, the store rejecting at most budget writes
Handlers(files, budget, track) ==
    \/ \E input \in InputValues, ok \in WriteOutcomes(budget) :
          AddTodo(input, ok, MaxTodos, MaxId) /\ History(track)
    \/ \E id \in Ids : DeleteTodo(id, MaxTimers) /\ History(track)
    \/ \E ok \in WriteOutcomes(budget) : DeleteTimeout(ok) /\ History(track)
    \/ \E id \in Ids, ok \in WriteOutcomes(budget) :
          ToggleTodo(id, ok) /\ History(track)
    \/ \E confirmed \in BOOLEAN, ok \in WriteOutcomes(budget) :
          ClearAllTodos(confirmed, ok) /\ History(track)
    \/ \E file \in files, replace \in BOOLEAN, ok \in WriteOutcomes(budget) :
          ImportTodos(file, replace, ok, MaxTodos) /\ History(track)
    \/ \E ok \in WriteOutcomes(budget) : Reload(ok) /\ History(track)

\* setItem never throws; the slot and the files are arbitrary
Next == Handlers(FileContents, 0, FALSE)

Spec == Init /\ [][Next]_vars

\* the same handlers, from a slot never written
SpecFresh == InitFresh /\ [][Next]_vars

\* setItem may throw, MaxFailures times; the slot and the files are few
NextFail == Handlers(FewFiles, MaxFailures, FALSE)

SpecFail == InitFail /\ [][NextFail]_vars

\* setItem never throws, the slot and the files are few, the ids held are tracked
NextHistory == Handlers(FewFiles, 0, TRUE)

SpecHistory == InitHistory /\ [][NextHistory]_vars

\* imports alone, of arbitrary files onto the list an arbitrary slot left,
\* followed while the list has room for one more file
NextImport ==
    \E file \in FileContents, replace \in BOOLEAN :
        ImportTodos(file, replace, TRUE, MaxTodos + MaxEntries) /\ History(FALSE)

SpecImport == Init /\ [][NextImport]_vars

\* setItem never throws; the slot and the files hold numbers out of the
\* ordinary
NextNumbers == Handlers(ExtremeFiles, 0, FALSE)

SpecNumbers == InitNumbers /\ [][NextNumbers]_vars

\* a page opened for the first time on which nothing is imported: add, toggle,
\* delete and clearAll, on lists of up to MaxAdds tasks with up to MaxPending
\* timers pending, the history kept
NextAdd ==
    \/ \E input \in InputValues : AddTodo(input, TRUE, MaxAdds, MaxAdds) /\ History(TRUE)
    \/ \E id \in 0..MaxAdds : DeleteTodo(id, MaxPending) /\ History(TRUE)
    \/ DeleteTimeout(TRUE) /\ History(TRUE)
    \/ \E id \in 0..MaxAdds : ToggleTodo(id, TRUE) /\ History(TRUE)
    \/ \E confirmed \in BOOLEAN : ClearAllTodos(confirmed, TRUE) /\ History(TRUE)

SpecAdd == InitAdd /\ [][NextAdd]_vars

\* setTimeout runs its callback: a pending timer fires
SpecAddFair == SpecAdd /\ WF_vars(DeleteTimeout(TRUE) /\ History(TRUE))

\* the page is opened, and opened again, on an arbitrary slot
NextLoad == Reload(TRUE) /\ History(FALSE)

SpecLoad == InitConstructed /\ [][NextLoad]_vars

---------------------------------------------------------------------------
(* The claims. *)

\* C1: in every reachable state no two tasks of the list share an id.
C1_UniqueIds ==
    \A i, j \in DOMAIN todos : todos[i].id = todos[j].id => i = j

\* C2: in every reachable state the counter is strictly greater than the
\* largest id in the list, and at least 1 when the list is empty.
C2_CounterAboveIds ==
    IF Len(todos) = 0
    THEN ToNumber(todoIdCounter) >= 1
    ELSE ToNumber(todoIdCounter) > MaxIdOf(todos)

\* the tasks a step appended to the list
Appended == {todos'[k] : k \in (Len(todos) + 1)..Len(todos')}

\* C3: the id add or import-merge gives a new task is greater than every id
\* in the list and was held by no task earlier in the session, deleted and
\* cleared tasks included.
C3_IdsNeverReused ==
    [][(last'.op \in {"addTodo", "importMerge"} /\ last'.saves = 1)
         => \A new \in Appended :
               /\ new.id \notin everHeld
               /\ \A i \in DOMAIN todos : new.id > todos[i].id]_vars

\* the slot holds an envelope whose todos are the list and whose counter is
\* the counter
SlotHoldsRegistry ==
    /\ storage # NoItem
    /\ JsonParse(storage).t = "envelope"
    /\ IsArray(TodosOf(JsonParse(storage)))
    /\ Len(TodosOf(JsonParse(storage)).items) = Len(todos)
    /\ FilterValid(TodosOf(JsonParse(storage)).items) = todos
    /\ CounterOf(JsonParse(storage)) = todoIdCounter

\* C4: when the write of add, toggle, the delete callback, clearAll or an
\* import went through, the slot holds the list and the counter as the
\* handler left them; no earlier write survives a later one.
C4_WriteHoldsRegistry == (last.wrote /\ last.op # "load") => SlotHoldsRegistry

C6_PositiveIds == \A i \in DOMAIN todos : todos[i].id >= 1

\* whether a counter property is a positive integer
IsPositiveInteger(v) == v.t = "number" /\ v.v >= 1

\* C7: right after a load that read an envelope, the counter is the
\* envelope's counter when that is a positive integer, and otherwise the
\* largest loaded id plus one (1 when nothing was loaded).
C7_LoadedCounter ==
    (last.op = "load" /\ LoadBranch(storage) = "envelope")
      => todoIdCounter =
            (IF IsPositiveInteger(CounterOf(JsonParse(storage)))
             THEN CounterOf(JsonParse(storage))
             ELSE JNum(GetNextId(todos)))

\* the slot holds a text that does not parse, or parses to something that is
\* neither an envelope with a todos array nor an array
SlotUnrecognised ==
    /\ storage # NoItem
    /\ \/ JsonParse(storage) = SyntaxError
       \/ /\ ~IsArray(JsonParse(storage))
          /\ ~IsArray(TodosOf(JsonParse(storage)))

\* C8: right after a load of an unparseable or unrecognised slot, the error
\* has been reported and the registry is empty with counter 1.
C8_CorruptSlotReported ==
    (last.op = "load" /\ SlotUnrecognised)
      => /\ "loadError" \in last.reports
         /\ todos = <<>>
         /\ todoIdCounter = JNum(1)

\* the registry a handler leaves, whatever became of its write
RegistryAfter(op) ==
    CASE op = "addTodo" ->
           \E input \in InputValues :
              /\ Trim(input) # ""
              /\ todos' = AddEffect(todos, todoIdCounter, Trim(input)).todos
              /\ todoIdCounter' = AddEffect(todos, todoIdCounter, Trim(input)).counter
      [] op = "toggleTodo" ->
           \E id \in Ids :
              /\ FindIndex(todos, id) # 0
              /\ todos' = ToggleEffect(todos, id)
              /\ todoIdCounter' = todoIdCounter
      [] op = "deleteTimeout" ->
           /\ todos' = DeleteEffect(todos, Head(timers))
           /\ todoIdCounter' = todoIdCounter
      [] op = "clearAllTodos" ->
           /\ todos' = <<>>
           /\ todoIdCounter' = todoIdCounter
      [] op = "importReplace" ->
           /\ todos' = last'.batch
           /\ todoIdCounter' = JNum(GetNextId(todos'))
      [] op = "importMerge" ->
           /\ todos' = MergeEffect(todos, last'.batch)
           /\ todoIdCounter' = JNum(GetNextId(todos'))
      [] op = "load" ->
           /\ todos' = FilterValid(JsonParse(storage).items)
           /\ todoIdCounter' = JNum(GetNextId(todos'))
      [] OTHER -> FALSE

\* C9: when the store rejects a handler's write, the list and the counter are
\* what the handler makes them when the write succeeds, the slot keeps its
\* content, the failure is reported and the view shows the list in memory.
C9_FailedWriteKeepsMutation ==
    [][(last'.saves = 1 /\ ~last'.wrote)
         => /\ RegistryAfter(last'.op)
            /\ storage' = storage
            /\ "saveError" \in last'.reports
            /\ todoList' = Render(todos')]_vars

\* an import-merge whose write was rejected: the merged task is in the list
\* and the slot still holds the list of one task
C9_Witness ==
    /\ last.op = "importMerge"
    /\ last.saves = 1
    /\ ~last.wrote
    /\ Len(todos) = 2
    /\ storage = JsonStringify(SubSeq(todos, 1, 1), JNum(todos[1].id + 1))

\* C10: add, toggle, delete, clearAll and import make exactly one persist
\* attempt when they change the registry (a toggle or delete of an id some
\* task holds, an accepted add, a confirmed clearAll, an import of valid
\* tasks) and none when they change nothing.
C10_OnePersistPerChange ==
    [][CASE last'.op \in {"addTodo", "toggleTodo", "deleteTimeout"} ->
              last'.saves = (IF todos' # todos THEN 1 ELSE 0)
         [] last'.op = "clearAllTodos" ->
              last'.saves = (IF "cleared" \in last'.reports THEN 1 ELSE 0)
         [] last'.op \in {"importReplace", "importMerge"} -> last'.saves = 1
         [] last'.op = "importTodos" -> last'.saves = 0
         [] OTHER -> TRUE]_vars

\* a file the import refuses: its text does not parse, or parses to something
\* that is not a sequence, or to a sequence with no record that has a number
\* id and a string text
FileRejected(file) ==
    \/ JsonParse(file) = SyntaxError
    \/ JsonParse(file).t # "array"
    \/ \A k \in DOMAIN JsonParse(file).items :
          LET e == JsonParse(file).items[k]
          IN  ~(e.t = "object" /\ e.id.t = "number" /\ e.text.t = "string")

\* the files an import refuses
RejectedFiles == {f \in FileContents : FileRejected(f)}

\* C11: an import of a refused file, whatever the answer to the dialog would
\* be, leaves the list, the counter and the slot as they were and makes no
\* persist attempt.
C11_FailedImportUnchanged ==
    [][\A file \in RejectedFiles :
          (/\ last'.op \in {"importTodos", "importReplace", "importMerge"}
           /\ \E replace \in BOOLEAN : ImportTodos(file, replace, TRUE, MaxTodos))
            => /\ UNCHANGED <<todos, todoIdCounter, storage>>
               /\ last'.saves = 0]_vars

\* a file with no valid task was refused while the list held two tasks and
\* the slot a copy of them
C11_Witness ==
    /\ last.op = "importTodos"
    /\ "noValidTasks" \in last.reports
    /\ Len(todos) = 2
    /\ SlotHoldsRegistry

\* C12: a load of a slot holding a bare sequence installs its valid tasks
\* with counter max(id)+1 (1 when there is none) and rewrites the slot as an
\* envelope; the next load takes the envelope branch, writes nothing and
\* leaves the same list and counter.
C12_LegacyUpgrade ==
    [][/\ (last'.op = "load" /\ storage # NoItem /\ JsonParse(storage).t = "array")
          => LET valid == FilterValid(JsonParse(storage).items)
             IN  /\ todos' = valid
                 /\ todoIdCounter' =
                       JNum(IF Len(valid) > 0 THEN Plus(MaxIdOf(valid), 1) ELSE 1)
                 /\ last'.wrote
                 /\ JsonParse(storage').t = "envelope"
                 /\ LoadBranch(storage') = "envelope"
       /\ (last.op = "load" /\ last.wrote /\ last'.op = "load")
          => /\ LoadBranch(storage) = "envelope"
             /\ last'.saves = 0
             /\ todos' = todos
             /\ todoIdCounter' = todoIdCounter]_vars

\* C13: when the last handler's write went through and the page is opened
\* again, the load yields the list the handler left, the same tasks in the
\* same order, and a counter not below the one it left.
C13_RoundTrip ==
    [][(last.wrote /\ last'.op = "load")
         => /\ todos' = todos
            /\ ToNumber(todoIdCounter') >= ToNumber(todoIdCounter)]_vars

\* C14: on a page opened for the first time with nothing imported, every
\* accepted add appends one task whose id is the counter before the call,
\* leaves the tasks before it as they were and raises the counter by one, so
\* the ids of the list are strictly increasing.
C14_AddSequence ==
    [][(last'.op = "addTodo" /\ last'.saves = 1)
         => /\ Len(todos') = Len(todos) + 1
            /\ SubSeq(todos', 1, Len(todos)) = todos
            /\ todos'[Len(todos')].id = ToNumber(todoIdCounter)
            /\ todos'[Len(todos')].text # ""
            /\ todoIdCounter' = JNum(ToNumber(todoIdCounter) + 1)
            /\ \A i, j \in DOMAIN todos' : i < j => todos'[i].id < todos'[j].id]_vars

\* the fourth add, made after an earlier task was deleted
C14_Witness ==
    /\ last.op = "addTodo"
    /\ last.saves = 1
    /\ Len(todos) = 3
    /\ todos[3].id = 4

\* the inputs that are empty once trimmed: nothing, or white space only
BlankInputs == {"", " "}

\* C15: an add of an input that is empty once trimmed reports the input
\* error, leaves the list, the counter and the slot as they were and makes no
\* persist attempt.
C15_BlankAddRejected ==
    [][\A input \in BlankInputs :
          (last'.op = "addTodo" /\ AddTodo(input, TRUE, MaxTodos, MaxId))
            => /\ "inputError" \in last'.reports
               /\ UNCHANGED <<todos, todoIdCounter, storage>>
               /\ last'.saves = 0]_vars

\* white space was submitted while the list held two tasks
C15_Witness ==
    /\ last.op = "addTodo"
    /\ "inputError" \in last.reports
    /\ Len(todos) = 2
    /\ storage # NoItem

\* ts without its k-th task
RemoveAt(ts, k) == SubSeq(ts, 1, k - 1) \o SubSeq(ts, k + 1, Len(ts))

\* C16: when the timer of a delete fires, one task holding the id is removed
\* and every other task, the order and the counter stay as they were (nothing
\* changes when no task holds the id); a delete of an id no task holds starts
\* no timer and changes nothing.
C16_DeleteFrame ==
    [][/\ last'.op = "deleteTimeout"
          => /\ todoIdCounter' = todoIdCounter
             /\ IF FindIndex(todos, Head(timers)) = 0
                THEN todos' = todos
                ELSE \E k \in DOMAIN todos :
                        /\ todos[k].id = Head(timers)
                        /\ todos' = RemoveAt(todos, k)
       /\ \A id \in Ids :
             (/\ last'.op = "deleteTodo"
              /\ FindIndex(todos, id) = 0
              /\ DeleteTodo(id, MaxTimers))
               => UNCHANGED <<todos, todoIdCounter, storage, timers>>]_vars

\* C17: a toggle of an id some task holds flips the completed flag of one
\* task holding it and leaves every other task, the ids, the texts, the order
\* and the counter as they were; a toggle of an id no task holds changes
\* nothing and makes no persist attempt.
C17_ToggleFrame ==
    [][\A id \in Ids :
          (last'.op = "toggleTodo" /\ ToggleTodo(id, TRUE))
            => /\ todoIdCounter' = todoIdCounter
               /\ IF \E k \in DOMAIN todos : todos[k].id = id
                  THEN /\ \E k \in DOMAIN todos :
                             /\ todos[k].id = id
                             /\ todos' = [todos EXCEPT
                                            ![k].completed = ~todos[k].completed]
                       /\ last'.saves = 1
                  ELSE /\ UNCHANGED <<todos, storage>>
                       /\ last'.saves = 0]_vars

\* a toggle left a list of two with its first task not completed and its
\* second completed
C17_Witness ==
    /\ last.op = "toggleTodo"
    /\ last.saves = 1
    /\ Len(todos) = 2
    /\ ~todos[1].completed
    /\ todos[2].completed

\* the entries of a file that are records with a number id and a string text,
\* in file order, as tasks
ValidOf(file) ==
    LET Valid(e) == e.t = "object" /\ e.id.t = "number" /\ e.text.t = "string"
        kept == SelectSeq(JsonParse(file).items, Valid)
    IN  [k \in DOMAIN kept |->
            [id |-> kept[k].id.v, text |-> kept[k].text.v,
             completed |-> kept[k].completed]]

\* the files an import accepts
AcceptedFiles == FileContents \ RejectedFiles

\* C18: an import answered with replace leaves exactly the valid entries of
\* the file, in file order and with the ids of the file, whatever the list
\* was, and a counter one above their largest id, whatever the counter was.
C18_ImportReplace ==
    [][last'.op = "importReplace"
         => \A file \in AcceptedFiles :
               ImportTodos(file, TRUE, TRUE, MaxTodos + MaxEntries)
                 => /\ todos' = ValidOf(file)
                    /\ todoIdCounter' = JNum(MaxIdOf(ValidOf(file)) + 1)]_vars

\* a file of two tasks that differ, the larger id first, was installed and
\* written
C18_Witness ==
    /\ last.op = "importReplace"
    /\ Len(todos) = 2
    /\ todos[1].id > todos[2].id
    /\ todos[1].text # todos[2].text
    /\ SlotHoldsRegistry

\* C19: every task the timer callback of a delete removes was in the list,
\* under the id of the delete, when the delete was requested, whatever ran in
\* between.
C19_DeferredDeleteTarget ==
    [][last'.op = "deleteTimeout"
         => \A k \in DOMAIN todos :
               (\A j \in DOMAIN todos' : todos'[j] # todos[k])
                 => [id |-> todos[k].id, text |-> todos[k].text]
                       \in Head(requested).seen]_vars

\* C20: on a page where tasks are added, toggled and deleted, once no timer
\* is pending the list is the one in which every delete took effect when it
\* was requested, adds and toggles made meanwhile included, and the callback
\* that fired last wrote it to the slot; and every pending delete leads to a
\* list without its id.
C20_NoLostUpdate ==
    /\ [](timers = <<>> => todos = expected)
    /\ []((timers = <<>> /\ last.op = "deleteTimeout") => SlotHoldsRegistry)
    /\ \A id \in 1..MaxAdds :
          (\E i \in DOMAIN timers : timers[i] = id) ~> (id \notin IdsOf(todos))

\* the callback of one delete fired while another was pending, after a task
\* was added and one completed since that other was requested
C20_Witness ==
    /\ last.op = "deleteTimeout"
    /\ Len(timers) = 1
    /\ \E i \in DOMAIN todos : todos[i].id >= requested[1].at
    /\ \E i \in DOMAIN todos : todos[i].completed /\ todos[i].id # timers[1]
    /\ HasElement(todoList, timers[1])

=============================================================================
